---- MODULE Spec2Model ----
(***************************************************************************)
(* Model of the ingestion pipeline of                                      *)
(* src/Code/AIRFLOW_PIPELINE/dags/pipeline1.py: process_pdfs and the       *)
(* helpers it calls, run against an object store (the GCS bucket), the     *)
(* source dataset (Hugging Face) and the external extraction service       *)
(* (PDF.co).  File names, object paths and texts are sequences of          *)
(* one-character strings, so that the path derivation is computed the way  *)
(* the code computes it.                                                   *)
(***************************************************************************)
EXTENDS Integers, Sequences, FiniteSets, TLC

(***************************************************************************)
(* Bounds of the model.                                                    *)
(***************************************************************************)
MaxPasses == 2        \* orchestration passes triggered in one behaviour
MaxFaults == 2        \* collaborator calls that fail in one behaviour
MaxInitObjects == 2   \* objects in the bucket before the first pass

Runs == {1, 2}        \* identities of DAG runs
SerialRuns == {1}     \* the scheduler serialises runs: one run at a time

(***************************************************************************)
(* String helpers (Python str methods and os.path.splitext).               *)
(***************************************************************************)
startswith(s, prefix) ==
    /\ Len(s) >= Len(prefix)
    /\ SubSeq(s, 1, Len(prefix)) = prefix

endswith(s, suffix) ==
    /\ Len(s) >= Len(suffix)
    /\ SubSeq(s, Len(s) - Len(suffix) + 1, Len(s)) = suffix

\* str.rfind, 1-based; 0 when the character does not occur
rfind(s, c) ==
    IF \E i \in 1..Len(s) : s[i] = c
    THEN CHOOSE i \in 1..Len(s) : s[i] = c /\ \A j \in (i+1)..Len(s) : s[j] # c
    ELSE 0

splitext_dropdirs(p) ==
    LET sepIndex == rfind(p, "/")
        dotIndex == rfind(p, ".")
    IN  IF dotIndex > sepIndex
        THEN <<SubSeq(p, sepIndex + 1, dotIndex - 1), SubSeq(p, dotIndex, Len(p))>>
        ELSE <<SubSeq(p, sepIndex + 1, Len(p)), <<>>>>

\* os.path.splitext: the extension starts at the last dot of the last path
\* component, leading dots of that component do not count
splitext(p) ==
    LET sepIndex == rfind(p, "/")
        dotIndex == rfind(p, ".")
    IN  IF /\ dotIndex > sepIndex
           /\ \E k \in (sepIndex+1)..(dotIndex-1) : p[k] # "."
        THEN <<SubSeq(p, 1, dotIndex - 1), SubSeq(p, dotIndex, Len(p))>>
        ELSE <<p, <<>>>>

(***************************************************************************)
(* Configuration and the source dataset.                                   *)
(***************************************************************************)
folder_test == <<"2","0","2","3","/","t","e","s","t">>
folder_validation == <<"2","0","2","3","/","v","a","l","i","d","a","t","i","o","n">>
folders_to_check == <<folder_test, folder_validation>>

F_readme == <<"R","E","A","D","M","E",".","m","d">>
F_test_a == <<"2","0","2","3","/","t","e","s","t","/","a",".","p","d","f">>
F_test_x_b == <<"2","0","2","3","/","t","e","s","t","/","x","/","b",".","p","d","f">>
F_test_meta == <<"2","0","2","3","/","t","e","s","t","/","m",".","t","x","t">>
F_validation_a == <<"2","0","2","3","/","v","a","l","i","d","a","t","i","o","n","/","a",".","p","d","f">>

F_test_upper == <<"2","0","2","3","/","t","e","s","t","/","c",".","P","D","F">>
F_2022_e == <<"2","0","2","2","/","e",".","p","d","f">>

\* what api.list_repo_files returns for the dataset repository
RepoFiles == <<F_readme, F_2022_e, F_test_a, F_test_upper, F_test_x_b, F_test_meta,
               F_validation_a>>

DotPdf == <<".","p","d","f">>
DotTxt == <<".","t","x","t">>
PdfExtract == <<"p","d","f","_","e","x","t","r","a","c","t","/">>
PdfcoExtract == <<"p","d","f","e","x","t","r","a","c","t","_","p","d","f","c","o","/">>

PdfFilesOf_anysuffix(files, folder_path) ==
    SelectSeq(files, LAMBDA f : startswith(f, folder_path))

\* pdf_files = [f for f in files if f.startswith(folder_path) and f.endswith(".pdf")]
PdfFilesOf(files, folder_path) ==
    SelectSeq(files, LAMBDA f : startswith(f, folder_path) /\ endswith(f, DotPdf))

\* f"pdf_extract/{os.path.splitext(pdf_file)[0]}.txt"
GcsTextPath(pdf_file_name) == PdfExtract \o splitext(pdf_file_name)[1] \o DotTxt

\* f"pdfextract_pdfco/{os.path.splitext(pdf_file)[0]}.txt"
PdfcoTextPath(pdf_file_name) == PdfcoExtract \o splitext(pdf_file_name)[1] \o DotTxt

Range(s) == {s[i] : i \in DOMAIN s}

Candidates == UNION {Range(PdfFilesOf(RepoFiles, folders_to_check[i])) : i \in DOMAIN folders_to_check}

(***************************************************************************)
(* Contents.                                                               *)
(***************************************************************************)
\* the bytes of a document of the dataset
PdfBytes(file) == <<"%PDF">> \o file

\* the path hf_hub_download returns: a file of the local cache
CachePath(file) == <<"~/.cache/huggingface/">> \o file

\* a text object written before the first pass of this pipeline
OldText == <<"o","l","d">>

\* what page.extract_text() returns for the pages of a document;
\* NoText stands for None
NoText == <<"None">>
PageTexts(file) ==
    IF file = F_test_a THEN << <<"h","i">>, NoText, <<"y","o">> >>
    ELSE IF file = F_test_x_b THEN << NoText, <<" ">> >>
    ELSE << <<"v">> >>

RECURSIVE ExtractPages_skipempty(_)
ExtractPages_skipempty(pages) ==
    IF pages = <<>> THEN <<>>
    ELSE IF Head(pages) = NoText THEN ExtractPages_skipempty(Tail(pages))
    ELSE Head(pages) \o <<"\n">> \o ExtractPages_skipempty(Tail(pages))

\* the loop of lines 121-123: extracted_text += (page.extract_text() or "") + "\n"
RECURSIVE ExtractPages(_)
ExtractPages(pages) ==
    IF pages = <<>> THEN <<>>
    ELSE LET page_text == IF Head(pages) = NoText THEN <<>> ELSE Head(pages)
         IN  page_text \o <<"\n">> \o ExtractPages(Tail(pages))

\* bodies the external service can answer with
ServiceBodies == {<<>>, <<"t","x","t">>}

(***************************************************************************)
(* State.                                                                  *)
(***************************************************************************)
VARIABLES
    store,            \* the bucket: object path -> content, for the objects present
    local_files,      \* files resident on the worker's disk
    faults,           \* collaborator calls that have failed so far
    passes,           \* orchestration passes triggered so far
    pc,               \* position of each run in process_pdfs and its callees
    folder,           \* index of folder_path in folders_to_check
    pdf_files,        \* process_pdfs: the filtered listing of the folder
    idx,              \* index of pdf_file in pdf_files
    pdf_file,         \* process_pdfs: the loop variable
    pdf_exists,       \* process_pdfs: result of the probe of line 202
    text_exists,      \* process_pdfs: result of the probe of line 207
    pdfco_exists,     \* process_pdfs: result of the probe of line 208
    gcs_text_path,    \* process_pdfs: line 203
    pdfco_text_path,  \* process_pdfs: line 204
    site,             \* branch of the if/elif chain of lines 210-237 taken
    file_path,        \* process_pdfs: what download_pdf returned
    pdf_file_path,    \* the backends' first parameter
    backend_text_path,\* the backends' own gcs_text_path (lines 107, 156)
    extracted_text,   \* the backends' extracted_text
    ops,              \* calls made for the current document, in order
    response          \* the application: its last request and the answer to it

shared == <<store, local_files, faults, passes>>
probes == <<pdf_exists, text_exists, pdfco_exists, gcs_text_path, pdfco_text_path>>
loop == <<folder, pdf_files, idx, pdf_file>>
backend == <<pdf_file_path, backend_text_path, extracted_text>>
pipeline == <<shared, pc, loop, probes, site, file_path, backend, ops>>
vars == <<store, local_files, faults, passes, pc, folder, pdf_files, idx,
          pdf_file, pdf_exists, text_exists, pdfco_exists, gcs_text_path,
          pdfco_text_path, site, file_path, pdf_file_path, backend_text_path,
          extracted_text, ops, response>>

\* blob.exists()
Exists(path) == path \in DOMAIN store

Put_replacing(path, content) == [p \in {path} |-> content]

\* blob.upload_from_file / blob.upload_from_string: writes, overwriting
Put(path, content) ==
    [p \in DOMAIN store \cup {path} |-> IF p = path THEN content ELSE store[p]]

\* the objects a bucket can hold for the documents of the dataset
ObjectPaths == UNION {{f, GcsTextPath(f), PdfcoTextPath(f)} : f \in Candidates}

InitContent(path) == IF path \in Candidates THEN PdfBytes(path) ELSE OldText

\* the bucket exists before the pipeline is deployed and may hold objects
\* written by upload_to_gcs.py or by an earlier version of the pipeline
InitStores ==
    {[p \in P |-> InitContent(p)] :
        P \in {Q \in SUBSET ObjectPaths : Cardinality(Q) <= MaxInitObjects}}

Init ==
    /\ store \in InitStores
    /\ local_files = {}
    /\ faults = 0
    /\ passes = 0
    /\ pc = [r \in Runs |-> "idle"]
    /\ folder = [r \in Runs |-> 1]
    /\ pdf_files = [r \in Runs |-> <<>>]
    /\ idx = [r \in Runs |-> 1]
    /\ pdf_file = [r \in Runs |-> <<>>]
    /\ pdf_exists = [r \in Runs |-> FALSE]
    /\ text_exists = [r \in Runs |-> FALSE]
    /\ pdfco_exists = [r \in Runs |-> FALSE]
    /\ gcs_text_path = [r \in Runs |-> <<>>]
    /\ pdfco_text_path = [r \in Runs |-> <<>>]
    /\ site = [r \in Runs |-> "none"]
    /\ file_path = [r \in Runs |-> <<>>]
    /\ pdf_file_path = [r \in Runs |-> <<>>]
    /\ backend_text_path = [r \in Runs |-> <<>>]
    /\ extracted_text = [r \in Runs |-> <<>>]
    /\ ops = [r \in Runs |-> <<>>]
    /\ response = <<>>

(***************************************************************************)
(* Control flow of process_pdfs.                                           *)
(***************************************************************************)
Goto(r, label) == pc' = [pc EXCEPT ![r] = label]

Log(r, op, path, ok) ==
    ops' = [ops EXCEPT ![r] = Append(@, [op |-> op, path |-> path, ok |-> ok])]

\* a collaborator call fails
Fault == /\ faults < MaxFaults
         /\ faults' = faults + 1

\* the end of "for pdf_file in pdf_files", or of the except clause of line
\* 239: on to the next folder of folders_to_check, or out of process_pdfs
EndFolder(r) ==
    IF folder[r] < Len(folders_to_check)
    THEN /\ folder' = [folder EXCEPT ![r] = @ + 1]
         /\ Goto(r, "list")
    ELSE /\ folder' = folder
         /\ Goto(r, "idle")

\* the end of one iteration of "for pdf_file in pdf_files" (also "continue")
Continue(r) ==
    IF idx[r] < Len(pdf_files[r])
    THEN /\ idx' = [idx EXCEPT ![r] = @ + 1]
         /\ folder' = folder
         /\ Goto(r, "probe_pdf")
    ELSE /\ idx' = idx
         /\ EndFolder(r)

\* an exception propagates out of the loop body to line 239
Raise(r) ==
    /\ Goto(r, "except")
    /\ UNCHANGED <<folder, idx>>

\* the scheduler invokes process_pdf_task
Trigger(r) ==
    /\ pc[r] = "idle"
    /\ passes < MaxPasses
    /\ passes' = passes + 1
    /\ folder' = [folder EXCEPT ![r] = 1]
    /\ ops' = [ops EXCEPT ![r] = <<>>]
    /\ site' = [site EXCEPT ![r] = "none"]
    /\ Goto(r, "list")
    /\ UNCHANGED <<store, local_files, faults, pdf_files, idx, pdf_file,
                   probes, file_path, backend>>
    /\ UNCHANGED response

ListRepoFiles_propagates(r) ==
    /\ pc[r] = "list"
    /\ \/ /\ Fault
          /\ Goto(r, "idle")
          /\ UNCHANGED <<folder, idx, pdf_files>>
       \/ /\ faults' = faults
          /\ pdf_files' = [pdf_files EXCEPT ![r] = PdfFilesOf(RepoFiles, folders_to_check[folder[r]])]
          /\ IF pdf_files'[r] = <<>>
             THEN EndFolder(r) /\ idx' = idx
             ELSE /\ idx' = [idx EXCEPT ![r] = 1]
                  /\ folder' = folder
                  /\ Goto(r, "probe_pdf")
    /\ UNCHANGED <<store, local_files, passes, pdf_file, probes, site,
                   file_path, backend, ops>>
    /\ UNCHANGED response

\* lines 198-200: list the repository, filter, enter the loop
ListRepoFiles(r) ==
    /\ pc[r] = "list"
    /\ \/ /\ Fault
          /\ Raise(r)
          /\ UNCHANGED pdf_files
       \/ /\ faults' = faults
          /\ pdf_files' = [pdf_files EXCEPT ![r] = PdfFilesOf(RepoFiles, folders_to_check[folder[r]])]
          /\ IF pdf_files'[r] = <<>>
             THEN EndFolder(r) /\ idx' = idx
             ELSE /\ idx' = [idx EXCEPT ![r] = 1]
                  /\ folder' = folder
                  /\ Goto(r, "probe_pdf")
    /\ UNCHANGED <<store, local_files, passes, pdf_file, probes, site,
                   file_path, backend, ops>>
    /\ UNCHANGED response

\* line 239-240: the exception is logged, the next folder follows
FolderExcept(r) ==
    /\ pc[r] = "except"
    /\ EndFolder(r)
    /\ UNCHANGED <<shared, pdf_files, idx, pdf_file, probes, site, file_path,
                   backend, ops>>
    /\ UNCHANGED response

\* pdf_exists_in_gcs (lines 45-58): the answer of blob.exists(), False when
\* the client or the call raises
pdf_exists_in_gcs(file_name, raises) ==
    IF raises THEN FALSE ELSE Exists(file_name)

\* text_exists_in_gcs (lines 60-73)
text_exists_in_gcs(text_file_name, raises) ==
    IF raises THEN FALSE ELSE Exists(text_file_name)

\* lines 200-204: the loop variable, the probe of the original, the paths
ProbePdf(r) ==
    /\ pc[r] = "probe_pdf"
    /\ LET f == pdf_files[r][idx[r]] IN
       /\ pdf_file' = [pdf_file EXCEPT ![r] = f]
       /\ \E raises \in BOOLEAN :
            /\ IF raises THEN Fault ELSE faults' = faults
            /\ pdf_exists' = [pdf_exists EXCEPT ![r] = pdf_exists_in_gcs(f, raises)]
       /\ gcs_text_path' = [gcs_text_path EXCEPT ![r] = GcsTextPath(f)]
       /\ pdfco_text_path' = [pdfco_text_path EXCEPT ![r] = PdfcoTextPath(f)]
    /\ ops' = [ops EXCEPT ![r] = <<>>]
    /\ site' = [site EXCEPT ![r] = "none"]
    /\ Goto(r, "probe_text")
    /\ UNCHANGED <<store, local_files, passes, folder, pdf_files, idx,
                   text_exists, pdfco_exists, file_path, backend>>
    /\ UNCHANGED response

\* line 207
ProbeText(r) ==
    /\ pc[r] = "probe_text"
    /\ \E raises \in BOOLEAN :
         /\ IF raises THEN Fault ELSE faults' = faults
         /\ text_exists' = [text_exists EXCEPT ![r] = text_exists_in_gcs(gcs_text_path[r], raises)]
    /\ Goto(r, "probe_pdfco")
    /\ UNCHANGED <<store, local_files, passes, loop, pdf_exists, pdfco_exists,
                   gcs_text_path, pdfco_text_path, site, file_path, backend, ops>>
    /\ UNCHANGED response

\* line 208
ProbePdfco(r) ==
    /\ pc[r] = "probe_pdfco"
    /\ \E raises \in BOOLEAN :
         /\ IF raises THEN Fault ELSE faults' = faults
         /\ pdfco_exists' = [pdfco_exists EXCEPT ![r] = text_exists_in_gcs(pdfco_text_path[r], raises)]
    /\ Goto(r, "dispatch")
    /\ UNCHANGED <<store, local_files, passes, loop, pdf_exists, text_exists,
                   gcs_text_path, pdfco_text_path, site, file_path, backend, ops>>
    /\ UNCHANGED response

Branch_noskip(p, t, c) ==
    IF p /\ t /\ ~c THEN "pdfco_only"
    ELSE IF p /\ ~t /\ c THEN "pypdf_only"
    ELSE "full"

Branch_swapped(p, t, c) ==
    IF p /\ t /\ c THEN "skip"
    ELSE IF p /\ t /\ ~c THEN "pypdf_only"
    ELSE IF p /\ ~t /\ c THEN "pdfco_only"
    ELSE "full"

\* the if/elif chain of lines 210-224
Branch(p, t, c) ==
    IF p /\ t /\ c THEN "skip"
    ELSE IF p /\ t /\ ~c THEN "pdfco_only"
    ELSE IF p /\ ~t /\ c THEN "pypdf_only"
    ELSE "full"

\* lines 210-225: choose the branch
Dispatch(r) ==
    /\ pc[r] = "dispatch"
    /\ LET b == Branch(pdf_exists[r], text_exists[r], pdfco_exists[r]) IN
       /\ site' = [site EXCEPT ![r] = b]
       /\ IF b = "skip" THEN Continue(r)
          ELSE /\ Goto(r, IF b = "pdfco_only" THEN "pdfco_check"
                          ELSE IF b = "pypdf_only" THEN "pypdf_check"
                          ELSE "download")
               /\ UNCHANGED <<folder, idx>>
    /\ UNCHANGED <<shared, pdf_files, pdf_file, probes, file_path, backend, ops>>
    /\ UNCHANGED response

(***************************************************************************)
(* The else branch: download and upload of the original.                   *)
(***************************************************************************)
DownloadPdf_swallow(r) ==
    /\ pc[r] = "download"
    /\ \/ /\ Fault
          /\ Log(r, "download", pdf_file[r], FALSE)
          /\ Goto(r, "upload")
          /\ UNCHANGED <<file_path, local_files>>
       \/ /\ faults' = faults
          /\ file_path' = [file_path EXCEPT ![r] = CachePath(pdf_file[r])]
          /\ local_files' = local_files \cup {CachePath(pdf_file[r])}
          /\ Log(r, "download", pdf_file[r], TRUE)
          /\ Goto(r, "upload")
    /\ UNCHANGED <<store, passes, loop, probes, site, backend>>
    /\ UNCHANGED response

\* download_pdf (lines 75-86), called at line 228: the file lands in the
\* local cache, or the exception is logged and raised again
DownloadPdf(r) ==
    /\ pc[r] = "download"
    /\ \/ /\ Fault
          /\ Log(r, "download", pdf_file[r], FALSE)
          /\ Raise(r)
          /\ UNCHANGED <<file_path, local_files, pdf_files, pdf_file>>
       \/ /\ faults' = faults
          /\ file_path' = [file_path EXCEPT ![r] = CachePath(pdf_file[r])]
          /\ local_files' = local_files \cup {CachePath(pdf_file[r])}
          /\ Log(r, "download", pdf_file[r], TRUE)
          /\ Goto(r, "upload")
          /\ UNCHANGED loop
    /\ UNCHANGED <<store, passes, probes, site, backend>>
    /\ UNCHANGED response

UploadToGcs_swallow(r) ==
    /\ pc[r] = "upload"
    /\ \/ /\ Fault
          /\ Log(r, "upload_pdf", pdf_file[r], FALSE)
          /\ UNCHANGED store
       \/ /\ faults' = faults
          /\ store' = Put(pdf_file[r], PdfBytes(pdf_file[r]))
          /\ Log(r, "upload_pdf", pdf_file[r], TRUE)
    /\ Goto(r, "pypdf_check")
    /\ UNCHANGED <<folder, idx>>
    /\ UNCHANGED <<local_files, passes, pdf_files, pdf_file, probes, site,
                   file_path, backend>>
    /\ UNCHANGED response

\* upload_to_gcs (lines 88-101), called at line 231
UploadToGcs(r) ==
    /\ pc[r] = "upload"
    /\ \/ /\ Fault
          /\ Log(r, "upload_pdf", pdf_file[r], FALSE)
          /\ Raise(r)
          /\ UNCHANGED store
       \/ /\ faults' = faults
          /\ store' = Put(pdf_file[r], PdfBytes(pdf_file[r]))
          /\ Log(r, "upload_pdf", pdf_file[r], TRUE)
          /\ Goto(r, "pypdf_check")
          /\ UNCHANGED <<folder, idx>>
    /\ UNCHANGED <<local_files, passes, pdf_files, pdf_file, probes, site,
                   file_path, backend>>
    /\ UNCHANGED response

(***************************************************************************)
(* extract_and_upload_contents (lines 103-138).                            *)
(***************************************************************************)
\* the first argument at the call sites: file_path at lines 234 and 237,
\* pdf_file at lines 216 and 221
FirstArg(r) == IF site[r] = "full" THEN file_path[r] ELSE pdf_file[r]

\* return of extract_and_upload_contents: line 237 follows the call of line
\* 234, "continue" the call of line 221
ReturnFromPypdf(r) ==
    IF site[r] = "full"
    THEN Goto(r, "pdfco_check") /\ UNCHANGED <<folder, idx>>
    ELSE Continue(r)

\* lines 106-114: the backend's own existence check
PypdfCheck(r) ==
    /\ pc[r] = "pypdf_check"
    /\ pdf_file_path' = [pdf_file_path EXCEPT ![r] = FirstArg(r)]
    /\ extracted_text' = [extracted_text EXCEPT ![r] = <<>>]
    /\ backend_text_path' = [backend_text_path EXCEPT ![r] = GcsTextPath(pdf_file[r])]
    /\ Log(r, "pypdf_call", backend_text_path'[r], TRUE)
    /\ \E raises \in BOOLEAN :
         /\ IF raises THEN Fault ELSE faults' = faults
         /\ IF text_exists_in_gcs(backend_text_path'[r], raises)
            THEN ReturnFromPypdf(r)
            ELSE Goto(r, "pypdf_parse") /\ UNCHANGED <<folder, idx>>
    /\ UNCHANGED <<store, local_files, passes, pdf_files, pdf_file, probes,
                   site, file_path>>
    /\ UNCHANGED response

\* lines 116-130: open the file, read it page by page
PypdfParse(r) ==
    /\ pc[r] = "pypdf_parse"
    /\ IF pdf_file_path[r] \notin local_files
       THEN \* open() raises FileNotFoundError, caught at line 137
            /\ Log(r, "parse", pdf_file_path[r], FALSE)
            /\ ReturnFromPypdf(r)
            /\ UNCHANGED <<faults, extracted_text>>
       ELSE \/ \* PdfReader or extract_text raises, caught at line 137
               /\ Fault
               /\ Log(r, "parse", pdf_file_path[r], FALSE)
               /\ ReturnFromPypdf(r)
               /\ UNCHANGED extracted_text
            \/ /\ faults' = faults
               /\ extracted_text' = [extracted_text EXCEPT ![r] = ExtractPages(PageTexts(pdf_file[r]))]
               /\ Log(r, "parse", pdf_file_path[r], TRUE)
               /\ Goto(r, "pypdf_upload")
               /\ UNCHANGED <<folder, idx>>
    /\ UNCHANGED <<store, local_files, passes, pdf_files, pdf_file, probes,
                   site, file_path, pdf_file_path, backend_text_path>>
    /\ UNCHANGED response

PypdfUpload_raises(r) ==
    /\ pc[r] = "pypdf_upload"
    /\ Log(r, "upload_pypdf", backend_text_path[r], FALSE)
    /\ Raise(r)
    /\ UNCHANGED <<shared, pdf_files, pdf_file, probes, site, file_path, backend>>
    /\ UNCHANGED response

\* lines 133-138: storage_client is not defined in this function nor in the
\* module, the reference raises NameError before any call to the store; the
\* except clause of line 137 logs it
PypdfUpload(r) ==
    /\ pc[r] = "pypdf_upload"
    /\ Log(r, "upload_pypdf", backend_text_path[r], FALSE)
    /\ ReturnFromPypdf(r)
    /\ UNCHANGED <<shared, pdf_files, pdf_file, probes, site, file_path, backend>>
    /\ UNCHANGED response

(***************************************************************************)
(* extract_using_pdfco (lines 152-190).                                    *)
(***************************************************************************)
PdfcoCheck_nocheck(r) ==
    /\ pc[r] = "pdfco_check"
    /\ pdf_file_path' = [pdf_file_path EXCEPT ![r] = FirstArg(r)]
    /\ extracted_text' = [extracted_text EXCEPT ![r] = <<>>]
    /\ backend_text_path' = [backend_text_path EXCEPT ![r] = PdfcoTextPath(pdf_file[r])]
    /\ Log(r, "pdfco_call", backend_text_path'[r], TRUE)
    /\ Goto(r, "sign")
    /\ UNCHANGED <<store, local_files, faults, passes, loop, probes, site, file_path>>
    /\ UNCHANGED response

\* lines 155-161: the backend's own existence check
PdfcoCheck(r) ==
    /\ pc[r] = "pdfco_check"
    /\ pdf_file_path' = [pdf_file_path EXCEPT ![r] = FirstArg(r)]
    /\ extracted_text' = [extracted_text EXCEPT ![r] = <<>>]
    /\ backend_text_path' = [backend_text_path EXCEPT ![r] = PdfcoTextPath(pdf_file[r])]
    /\ Log(r, "pdfco_call", backend_text_path'[r], TRUE)
    /\ \E raises \in BOOLEAN :
         /\ IF raises THEN Fault ELSE faults' = faults
         /\ IF text_exists_in_gcs(backend_text_path'[r], raises)
            THEN Continue(r)
            ELSE Goto(r, "sign") /\ UNCHANGED <<folder, idx>>
    /\ UNCHANGED <<store, local_files, passes, pdf_files, pdf_file, probes,
                   site, file_path>>
    /\ UNCHANGED response

\* generate_signed_url (lines 140-150), called at line 163 outside the try:
\* an exception leaves extract_using_pdfco
GenerateSignedUrl(r) ==
    /\ pc[r] = "sign"
    /\ \/ /\ Fault
          /\ Log(r, "sign", pdf_file[r], FALSE)
          /\ Raise(r)
       \/ /\ faults' = faults
          /\ Log(r, "sign", pdf_file[r], TRUE)
          /\ Goto(r, "post")
          /\ UNCHANGED <<folder, idx>>
    /\ UNCHANGED <<store, local_files, passes, pdf_files, pdf_file, probes,
                   site, file_path, backend>>
    /\ UNCHANGED response

PdfcoPost_raises(r) ==
    /\ pc[r] = "post"
    /\ \/ /\ Fault
          /\ Log(r, "post", pdf_file[r], FALSE)
          /\ Raise(r)
          /\ UNCHANGED extracted_text
       \/ /\ faults' = faults
          /\ \E body \in ServiceBodies :
               /\ extracted_text' = [extracted_text EXCEPT ![r] = body]
               /\ Log(r, "post", pdf_file[r], TRUE)
               /\ IF body # <<>>
                  THEN Goto(r, "pdfco_upload") /\ UNCHANGED <<folder, idx>>
                  ELSE Continue(r)
    /\ UNCHANGED <<store, local_files, passes, pdf_files, pdf_file, probes,
                   site, file_path, pdf_file_path, backend_text_path>>
    /\ UNCHANGED response

\* lines 166-190: the request; a transport error is caught at line 189, a
\* status other than 200 is logged at line 187, an empty body at line 185
PdfcoPost(r) ==
    /\ pc[r] = "post"
    /\ \/ /\ Fault
          /\ \E outcome \in {"raises", "status_500"} :
               Log(r, "post", pdf_file[r], FALSE)
          /\ Continue(r)
          /\ UNCHANGED extracted_text
       \/ /\ faults' = faults
          /\ \E body \in ServiceBodies :
               /\ extracted_text' = [extracted_text EXCEPT ![r] = body]
               /\ Log(r, "post", pdf_file[r], TRUE)
               /\ IF body # <<>>
                  THEN Goto(r, "pdfco_upload") /\ UNCHANGED <<folder, idx>>
                  ELSE Continue(r)
    /\ UNCHANGED <<store, local_files, passes, pdf_files, pdf_file, probes,
                   site, file_path, pdf_file_path, backend_text_path>>
    /\ UNCHANGED response

\* lines 180-183: upload of the text; an exception is caught at line 189
PdfcoUpload(r) ==
    /\ pc[r] = "pdfco_upload"
    /\ \/ /\ Fault
          /\ Log(r, "upload_pdfco", backend_text_path[r], FALSE)
          /\ UNCHANGED store
       \/ /\ faults' = faults
          /\ store' = Put(backend_text_path[r], extracted_text[r])
          /\ Log(r, "upload_pdfco", backend_text_path[r], TRUE)
    /\ Continue(r)
    /\ UNCHANGED <<local_files, passes, pdf_files, pdf_file, probes, site,
                   file_path, backend>>
    /\ UNCHANGED response

(***************************************************************************)
(* Specification: the scheduler triggers one run at a time.                *)
(***************************************************************************)
Step(r) ==
    \/ Trigger(r)
    \/ ListRepoFiles(r)
    \/ FolderExcept(r)
    \/ ProbePdf(r)
    \/ ProbeText(r)
    \/ ProbePdfco(r)
    \/ Dispatch(r)
    \/ DownloadPdf(r)
    \/ UploadToGcs(r)
    \/ PypdfCheck(r)
    \/ PypdfParse(r)
    \/ PypdfUpload(r)
    \/ PdfcoCheck(r)
    \/ GenerateSignedUrl(r)
    \/ PdfcoPost(r)
    \/ PdfcoUpload(r)

Next == \E r \in SerialRuns : Step(r)

Spec == Init /\ [][Next]_vars

TypeOK ==
    /\ faults \in 0..MaxFaults
    /\ passes \in 0..MaxPasses
    /\ DOMAIN store \subseteq ObjectPaths

(***************************************************************************)
(* Vocabulary of the properties.                                           *)
(***************************************************************************)
Last(s) == s[Len(s)]

Entry(op, path, ok) == [op |-> op, path |-> path, ok |-> ok]

\* the positions from which a run issues a store-mutating call
MutatingPcs == {"upload", "pdfco_upload"}

\* the log entries of the two backends
PypdfOps == {"pypdf_call", "parse", "upload_pypdf"}
PdfcoOps == {"pdfco_call", "sign", "post", "upload_pdfco"}

\* the iteration for pdf_file[r] is over and no other has begun
DocDone(r) == pc[r] \in {"probe_pdf", "list", "idle"} /\ ops[r] # <<>>

\* the calls of the log that reached the source dataset or wrote the store
RECURSIVE StoreOps(_)
StoreOps(log) ==
    IF log = <<>> THEN <<>>
    ELSE IF Head(log).ok /\ Head(log).op \in {"download", "upload_pdf", "upload_pypdf", "upload_pdfco"}
         THEN <<Head(log)>> \o StoreOps(Tail(log))
         ELSE StoreOps(Tail(log))

(***************************************************************************)
(* C1: idempotence.  When two passes run in succession over the same       *)
(* listing and no collaborator call fails, the second pass issues no       *)
(* store-mutating call: no run leaves the upload of an original or of a    *)
(* service extract during the second pass.                                 *)
(***************************************************************************)
C1_SecondRunMutatesNothing ==
    [][\A r \in Runs :
         (passes = 2 /\ faults' = 0 /\ pc[r] \in MutatingPcs) => pc'[r] = pc[r]]_vars

(***************************************************************************)
(* C2: a document whose three probes all returned true is skipped: the     *)
(* dispatch leaves the store, the local disk and the log of calls as they  *)
(* are and moves on to the next document, folder, or the end of the pass.  *)
(***************************************************************************)
C2_AllPresentIsSkipped ==
    [][\A r \in Runs :
         (pc[r] = "dispatch" /\ pdf_exists[r] /\ text_exists[r] /\ pdfco_exists[r])
         => /\ store' = store
            /\ local_files' = local_files
            /\ ops[r] = <<>> /\ ops'[r] = <<>>
            /\ pc'[r] \in {"probe_pdf", "list", "idle"}
            /\ pc'[r] = "probe_pdf" => idx'[r] = idx[r] + 1]_vars

C2_Witness ==
    \E r \in Runs :
        /\ site[r] = "skip"
        /\ pdf_exists[r] /\ text_exists[r] /\ pdfco_exists[r]
        /\ pc[r] = "probe_pdf"
        /\ idx[r] = 2

(***************************************************************************)
(* C3: when the probe of the original returned false, the first call for   *)
(* the document is the download, the upload of the original comes second   *)
(* and only after a download that succeeded, and a backend is entered only *)
(* after a download and an upload that both succeeded.                     *)
(***************************************************************************)
C3_DownloadThenUploadThenExtract ==
    \A r \in Runs :
        (~pdf_exists[r] /\ ops[r] # <<>>) =>
            /\ ops[r][1].op = "download"
            /\ \A i \in DOMAIN ops[r] :
                 /\ ops[r][i].op = "download" => i = 1
                 /\ ops[r][i].op = "upload_pdf" =>
                      /\ i = 2
                      /\ ops[r][1] = Entry("download", pdf_file[r], TRUE)
                 /\ ops[r][i].op \in PypdfOps \cup PdfcoOps =>
                      /\ i > 2
                      /\ ops[r][1] = Entry("download", pdf_file[r], TRUE)
                      /\ ops[r][2] = Entry("upload_pdf", pdf_file[r], TRUE)

C3_Witness ==
    \E r \in Runs :
        /\ ~pdf_exists[r]
        /\ Len(ops[r]) >= 6
        /\ ops[r][3].op = "pypdf_call"
        /\ \E i \in DOMAIN ops[r] : ops[r][i].op = "pdfco_call"

(***************************************************************************)
(* C4: a document with none of its three objects stored, processed with    *)
(* every collaborator succeeding and a non-empty service text, gets        *)
(* exactly: download, upload of the original, upload of the local extract, *)
(* upload of the service extract, in this order; then all three objects    *)
(* are present.                                                            *)
(***************************************************************************)
C4_FreshDocumentGetsAllThree ==
    \A r \in Runs :
        ( /\ DocDone(r)
          /\ site[r] = "full"
          /\ ~pdf_exists[r] /\ ~text_exists[r] /\ ~pdfco_exists[r]
          /\ faults = 0
          /\ extracted_text[r] # <<>> )
        => /\ StoreOps(ops[r]) =
                << Entry("download", pdf_file[r], TRUE),
                   Entry("upload_pdf", pdf_file[r], TRUE),
                   Entry("upload_pypdf", gcs_text_path[r], TRUE),
                   Entry("upload_pdfco", pdfco_text_path[r], TRUE) >>
           /\ Exists(pdf_file[r])
           /\ Exists(gcs_text_path[r])
           /\ Exists(pdfco_text_path[r])

(***************************************************************************)
(* Path derivations as the specification words them.                       *)
(***************************************************************************)
\* the identifier with its .pdf suffix removed
WithoutSuffix(file) == SubSeq(file, 1, Len(file) - Len(DotPdf))

\* the final path segment of a path
FinalSegment(path) == SubSeq(path, rfind(path, "/") + 1, Len(path))

\* the stem of the glossary: the final segment without its extension
Stem(file) == FinalSegment(WithoutSuffix(file))

\* the run has entered a backend and passed its existence check
InPypdf(r) == pc[r] \in {"pypdf_parse", "pypdf_upload"}
InPdfco(r) == pc[r] \in {"sign", "post", "pdfco_upload"}

\* the paths the backends use are the paths the orchestrator probed
BackendPathsAgree(r) ==
    /\ InPypdf(r) => backend_text_path[r] = gcs_text_path[r]
    /\ InPdfco(r) => backend_text_path[r] = pdfco_text_path[r]
    /\ \A i \in DOMAIN ops[r] :
         /\ ops[r][i].op \in {"pypdf_call", "upload_pypdf"} => ops[r][i].path = gcs_text_path[r]
         /\ ops[r][i].op \in {"pdfco_call", "upload_pdfco"} => ops[r][i].path = pdfco_text_path[r]

(***************************************************************************)
(* C5 as stated: the extract paths drop every directory component of the   *)
(* identifier (pdf_extract/<stem>.txt, pdfextract_pdfco/<stem>.txt), and   *)
(* the backends write the paths the orchestrator probes.                   *)
(***************************************************************************)
C5_ExtractPathsDropDirectories ==
    \A r \in Runs :
        gcs_text_path[r] # <<>> =>
            /\ gcs_text_path[r] = PdfExtract \o Stem(pdf_file[r]) \o DotTxt
            /\ pdfco_text_path[r] = PdfcoExtract \o Stem(pdf_file[r]) \o DotTxt
            /\ BackendPathsAgree(r)

(***************************************************************************)
(* C5 amended: the extract paths keep the directory components: they are   *)
(* the method's prefix, the whole identifier without its .pdf suffix, and  *)
(* .txt (2023/test/x/b.pdf gives pdf_extract/2023/test/x/b.txt), at any    *)
(* folder depth; the backends write the paths the orchestrator probes.     *)
(***************************************************************************)
C5_ExtractPathsKeepDirectories ==
    \A r \in Runs :
        gcs_text_path[r] # <<>> =>
            /\ gcs_text_path[r] = PdfExtract \o WithoutSuffix(pdf_file[r]) \o DotTxt
            /\ pdfco_text_path[r] = PdfcoExtract \o WithoutSuffix(pdf_file[r]) \o DotTxt
            /\ BackendPathsAgree(r)

C5_Witness ==
    \E r \in Runs :
        /\ pdf_file[r] = F_test_x_b
        /\ DocDone(r)
        /\ Last(ops[r]) = Entry("upload_pdfco", PdfcoExtract \o WithoutSuffix(F_test_x_b) \o DotTxt, TRUE)
        /\ Exists(PdfcoExtract \o WithoutSuffix(F_test_x_b) \o DotTxt)

(***************************************************************************)
(* C6: when the request to the external service raises or is answered with *)
(* a status other than 200, the store is left as it is, the exception does *)
(* not reach the handler of the folder, and the loop goes on with the next *)
(* candidate (the next document of the folder, else the next folder).      *)
(***************************************************************************)
C6_ServiceFailureIsContained ==
    [][\A r \in Runs :
         (pc[r] = "post" /\ ops'[r] = Append(ops[r], Entry("post", pdf_file[r], FALSE)))
         => /\ store' = store
            /\ pc'[r] # "except"
            /\ IF idx[r] < Len(pdf_files[r])
               THEN pc'[r] = "probe_pdf" /\ idx'[r] = idx[r] + 1
               ELSE pc'[r] = (IF folder[r] < Len(folders_to_check) THEN "list" ELSE "idle")]_vars

C6_Witness ==
    \E r \in Runs :
        /\ pc[r] = "probe_pdf"
        /\ idx[r] = 2
        /\ ops[r] # <<>>
        /\ Last(ops[r]) = Entry("post", F_test_a, FALSE)
        /\ ~Exists(pdfco_text_path[r])

(***************************************************************************)
(* C7: per-document failure isolation: a failing call made for one         *)
(* document never takes the run to the handler of the folder while         *)
(* documents of that folder remain to be processed.                        *)
(***************************************************************************)
C7_FailureLeavesRemainingDocuments ==
    [][\A r \in Runs :
         ( /\ pc[r] \notin {"idle", "list", "except"}
           /\ faults' > faults
           /\ idx[r] < Len(pdf_files[r]) )
         => pc'[r] # "except"]_vars

(***************************************************************************)
(* C8: a document is downloaded, and its original uploaded, only while the *)
(* original is absent from the store (stated for steps that follow no      *)
(* failed call).                                                           *)
(***************************************************************************)
C8_OriginalFetchedOnlyWhenAbsent ==
    [][\A r \in Runs :
         (pc[r] \in {"download", "upload"} /\ pc'[r] # pc[r] /\ faults' = 0)
         => ~Exists(pdf_file[r])]_vars

(***************************************************************************)
(* C9: an extract object, once present, is never written again, changed or *)
(* deleted by a step of the pipeline.                                      *)
(***************************************************************************)
C9_ExtractsWrittenAtMostOnce ==
    [][\A f \in Candidates : \A p \in {GcsTextPath(f), PdfcoTextPath(f)} :
         Exists(p) =>
            /\ p \in DOMAIN store'
            /\ store'[p] = store[p]
            /\ \A r \in Runs :
                 ~ /\ ops'[r] # ops[r]
                   /\ ops'[r] # <<>>
                   /\ Last(ops'[r]).path = p
                   /\ Last(ops'[r]).op \in {"upload_pypdf", "upload_pdfco"}
                   /\ Last(ops'[r]).ok]_vars

(***************************************************************************)
(* C10: with the original present and exactly one extract missing, only    *)
(* the missing method's backend is called: no download, no upload of the   *)
(* original, no call of the other backend.                                 *)
(***************************************************************************)
C10_OnlyTheMissingExtraction ==
    \A r \in Runs :
        site[r] # "none" =>
            /\ (pdf_exists[r] /\ text_exists[r] /\ ~pdfco_exists[r]) =>
                 /\ site[r] = "pdfco_only"
                 /\ IF ops[r] = <<>> THEN pc[r] = "pdfco_check"
                    ELSE ops[r][1].op = "pdfco_call"
                 /\ \A i \in DOMAIN ops[r] : ops[r][i].op \in PdfcoOps
            /\ (pdf_exists[r] /\ ~text_exists[r] /\ pdfco_exists[r]) =>
                 /\ site[r] = "pypdf_only"
                 /\ IF ops[r] = <<>> THEN pc[r] = "pypdf_check"
                    ELSE ops[r][1].op = "pypdf_call"
                 /\ \A i \in DOMAIN ops[r] : ops[r][i].op \in PypdfOps

C10_Witness ==
    \E r \in Runs :
        /\ pdf_exists[r] /\ text_exists[r] /\ ~pdfco_exists[r]
        /\ DocDone(r)
        /\ Last(ops[r]) = Entry("upload_pdfco", pdfco_text_path[r], TRUE)

(***************************************************************************)
(* C11: with the original present and both extracts missing (probes T, F,  *)
(* F) the document is neither downloaded nor is its original uploaded, and *)
(* both backends are called.                                               *)
(***************************************************************************)
C11_BothExtractionsWithoutDownload ==
    \A r \in Runs :
        (site[r] # "none" /\ pdf_exists[r] /\ ~text_exists[r] /\ ~pdfco_exists[r]) =>
            /\ pc[r] \notin {"download", "upload"}
            /\ \A i \in DOMAIN ops[r] : ops[r][i].op \notin {"download", "upload_pdf"}
            /\ DocDone(r) =>
                 /\ \E i \in DOMAIN ops[r] : ops[r][i].op = "pypdf_call"
                 /\ \E i \in DOMAIN ops[r] : ops[r][i].op = "pdfco_call"

(***************************************************************************)
(* C12 as stated: in the download/upload branch taken for an absent        *)
(* original, a backend whose extract is already present does its           *)
(* extraction work all the same: the local backend parses the file, the    *)
(* service backend requests a signed URL.                                  *)
(***************************************************************************)
C12_PresentExtractIsExtractedAgain ==
    [][\A r \in Runs :
         /\ ( /\ pc[r] = "pypdf_check" /\ site[r] = "full" /\ ~pdf_exists[r]
              /\ text_exists[r] /\ faults' = faults )
            => pc'[r] = "pypdf_parse"
         /\ ( /\ pc[r] = "pdfco_check" /\ site[r] = "full" /\ ~pdf_exists[r]
              /\ pdfco_exists[r] /\ faults' = faults )
            => pc'[r] = "sign"]_vars

(***************************************************************************)
(* C12 amended: in the download/upload branch taken for an absent          *)
(* original, the orchestrator still calls the backend of an extract that   *)
(* is present, but the backend checks for the object itself (lines 110 and *)
(* 159) and, when that check answers, returns without parsing, without     *)
(* asking for a signed URL and without writing the store.                  *)
(***************************************************************************)
C12_PresentExtractIsCheckedAndLeft ==
    [][\A r \in Runs :
         /\ ( /\ pc[r] = "pypdf_check" /\ site[r] = "full" /\ ~pdf_exists[r]
              /\ Exists(gcs_text_path[r]) /\ faults' = faults )
            => /\ ops'[r] = Append(ops[r], Entry("pypdf_call", gcs_text_path[r], TRUE))
               /\ pc'[r] = "pdfco_check"
               /\ store' = store
         /\ ( /\ pc[r] = "pdfco_check" /\ site[r] = "full" /\ ~pdf_exists[r]
              /\ Exists(pdfco_text_path[r]) /\ faults' = faults )
            => /\ ops'[r] = Append(ops[r], Entry("pdfco_call", pdfco_text_path[r], TRUE))
               /\ pc'[r] \notin {"sign", "post", "pdfco_upload", "except"}
               /\ store' = store]_vars

C12_Witness ==
    \E r \in Runs :
        /\ site[r] = "full" /\ ~pdf_exists[r] /\ text_exists[r] /\ pdfco_exists[r]
        /\ DocDone(r)
        /\ ops[r] = << Entry("download", pdf_file[r], TRUE),
                       Entry("upload_pdf", pdf_file[r], TRUE),
                       Entry("pypdf_call", gcs_text_path[r], TRUE),
                       Entry("pdfco_call", pdfco_text_path[r], TRUE) >>
        /\ store[gcs_text_path[r]] = OldText
        /\ store[pdfco_text_path[r]] = OldText

(***************************************************************************)
(* C13: when the external service answers 200 with an empty text, the      *)
(* empty text is stored at the service-extract path.                       *)
(***************************************************************************)
C13_EmptyServiceTextIsStored ==
    \A r \in Runs :
        ( /\ DocDone(r)
          /\ Last(ops[r]) = Entry("post", pdf_file[r], TRUE)
          /\ extracted_text[r] = <<>> )
        => Exists(pdfco_text_path[r])

(***************************************************************************)
(* Texts as the specification words them.                                  *)
(***************************************************************************)
\* str.strip() leaves nothing
IsBlank(text) == \A i \in DOMAIN text : text[i] \in {" ", "\n", "\t"}

\* the segments of a text, each ended by a newline
RECURSIVE Segments(_)
Segments(text) ==
    IF text = <<>> THEN <<>>
    ELSE IF \A i \in DOMAIN text : text[i] # "\n" THEN <<text>>
    ELSE LET k == CHOOSE i \in DOMAIN text :
                      text[i] = "\n" /\ \A j \in 1..(i-1) : text[j] # "\n"
         IN  <<SubSeq(text, 1, k - 1)>> \o Segments(SubSeq(text, k + 1, Len(text)))

\* the number of newlines of a text
Newlines(text) == Cardinality({i \in DOMAIN text : text[i] = "\n"})

(***************************************************************************)
(* C14: when the local extraction of a readable PDF gives an empty or      *)
(* whitespace-only text, the text is uploaded all the same: once the       *)
(* upload step of lines 132-135 is behind, the object is at the            *)
(* local-extract path.                                                     *)
(***************************************************************************)
C14_BlankLocalTextIsStored ==
    \A r \in Runs :
        ( /\ ops[r] # <<>>
          /\ Last(ops[r]).op = "upload_pypdf"
          /\ IsBlank(extracted_text[r]) )
        => Exists(backend_text_path[r])

(***************************************************************************)
(* C15: the text local extraction builds from a PDF of N pages is N        *)
(* segments in page order, each followed by one newline; a page without    *)
(* text gives an empty segment and takes nothing from the other pages.     *)
(***************************************************************************)
C15_OneSegmentPerPage ==
    \A r \in Runs :
        pc[r] = "pypdf_upload" =>
            LET pages == PageTexts(pdf_file[r])
                segs == Segments(extracted_text[r])
            IN  /\ Len(segs) = Len(pages)
                /\ Newlines(extracted_text[r]) = Len(pages)
                /\ pages # <<>> => Last(extracted_text[r]) = "\n"
                /\ \A k \in DOMAIN pages :
                     segs[k] = (IF pages[k] = NoText THEN <<>> ELSE pages[k])

C15_Witness ==
    \E r \in Runs :
        /\ pc[r] = "pypdf_upload"
        /\ pdf_file[r] = F_test_a
        /\ PageTexts(pdf_file[r])[2] = NoText
        /\ extracted_text[r] = <<"h", "i", "\n", "\n", "y", "o", "\n">>

(***************************************************************************)
(* C16: a failure of the listing call goes to the except clause of the     *)
(* folder and no further: the store and the log of calls stay as they are, *)
(* the loop over the documents of that folder is not entered, and the run  *)
(* goes on with the next configured folder (or ends the pass normally).    *)
(***************************************************************************)
C16_ListingFailureIsContained ==
    [][\A r \in Runs :
         /\ (pc[r] = "list" /\ faults' > faults) =>
              /\ pc'[r] = "except"
              /\ store' = store
              /\ ops'[r] = ops[r]
              /\ folder'[r] = folder[r]
         /\ pc[r] = "except" =>
              /\ store' = store
              /\ ops'[r] = ops[r]
              /\ IF folder[r] < Len(folders_to_check)
                 THEN pc'[r] = "list" /\ folder'[r] = folder[r] + 1
                 ELSE pc'[r] = "idle"]_vars

C16_Witness ==
    \E r \in Runs :
        /\ pc[r] = "list"
        /\ folder[r] = 2
        /\ passes = 1
        /\ faults = 1
        /\ pdf_files[r] = <<>>
        /\ ops[r] = <<>>

(***************************************************************************)
(* C17: an existence check answers true iff the object is stored, and an   *)
(* unreachable store is never taken for an absent object: the branch of a  *)
(* document is chosen on presence facts that are true of the store, so a   *)
(* failed probe causes no download, upload or extraction.                  *)
(***************************************************************************)
C17_ProbesTellTheTruth ==
    \A r \in Runs :
        pc[r] \in {"dispatch", "download", "upload"} =>
            /\ pdf_exists[r] = Exists(pdf_file[r])
            /\ text_exists[r] = Exists(gcs_text_path[r])
            /\ pdfco_exists[r] = Exists(pdfco_text_path[r])

(***************************************************************************)
(* C18: an extraction that failed in one pass is attempted again in the    *)
(* next pass that reaches the document.  Stated for the second pass after  *)
(* a first pass without any failed call: that pass reached every document, *)
(* and the local extraction of every document whose local extract is       *)
(* absent failed in it (line 133).  A document reached by the second pass  *)
(* with its local extract absent never leaves its iteration for the except *)
(* clause of the folder before the local backend is called.                *)
(***************************************************************************)
C18_FailedExtractionIsRetried ==
    [][\A r \in Runs :
         ( /\ passes = 2
           /\ faults = 0
           /\ pc[r] \in {"download", "upload"}
           /\ ~Exists(gcs_text_path[r]) )
         => pc'[r] # "except"]_vars

(***************************************************************************)
(* C19: self-healing.  When passes keep being triggered and every          *)
(* collaborator call succeeds, the original and both extracts of every     *)
(* candidate document end up in the store.  Stated on finite runs: once    *)
(* the last of MaxPasses passes has finished and no call has failed in the *)
(* whole behaviour, every candidate has its original and both extracts,    *)
(* whatever the store held at the start.                                   *)
(***************************************************************************)
C19_PassesHealTheStore ==
    \A r \in SerialRuns :
        (pc[r] = "idle" /\ passes = MaxPasses /\ faults = 0) =>
            \A f \in Candidates :
                /\ Exists(f)
                /\ Exists(GcsTextPath(f))
                /\ Exists(PdfcoTextPath(f))

(***************************************************************************)
(* The readers of the application: get_pdf_extract of fast.py and of       *)
(* FastApi.py, evaluated on the store.                                     *)
(***************************************************************************)
\* str.replace: every non-overlapping occurrence of old, left to right
RECURSIVE replace(_, _, _)
replace(s, old, new) ==
    IF Len(s) < Len(old) THEN s
    ELSE IF SubSeq(s, 1, Len(old)) = old
         THEN new \o replace(SubSeq(s, Len(old) + 1, Len(s)), old, new)
         ELSE <<Head(s)>> \o replace(Tail(s), old, new)

\* str.upper on the two extract types
upper(extract_type) ==
    IF extract_type = "pypdf" THEN "PYPDF"
    ELSE IF extract_type = "pdfco" THEN "PDFCO"
    ELSE extract_type

\* f'GCP_{extract_type.upper()}_EXTRACT_FOLDER'
ExtractFolderVar(extract_type) == <<"GCP_", upper(extract_type), "_EXTRACT_FOLDER">>

\* 'GCP_PDF_FOLDER'
PdfFolderVar == <<"GCP_PDF_FOLDER">>

\* os.getenv(key, default) on an environment, a function from the variables
\* that are set to their values
getenv(environ, key, default) ==
    IF key \in DOMAIN environ THEN environ[key] ELSE default

\* the default of fast.py for both folders, and None as an f-string prints it
ExtractsDefault == <<"e","x","t","r","a","c","t","s","/">>
NoneFormatted == <<"N","o","n","e">>

\* environments of the application: no variable set; the folder of the
\* originals set to the dataset year and the extract folders set to the
\* prefixes the pipeline writes under, or to those prefixes followed by the
\* dataset year
Year == <<"2","0","2","3","/">>
Environments ==
    { [key \in {} |-> <<>>] }
    \cup { [key \in {PdfFolderVar, ExtractFolderVar("pypdf"), ExtractFolderVar("pdfco")} |->
               IF key = PdfFolderVar THEN Year
               ELSE (IF key = ExtractFolderVar("pypdf") THEN PdfExtract ELSE PdfcoExtract) \o suffix]
           : suffix \in {<<>>, Year} }

\* for subfolder in ['test', 'validation']
subfolders == << <<"t","e","s","t">>, <<"v","a","l","i","d","a","t","i","o","n">> >>

\* the first blob of the loop that exists, as text; NoText (None) otherwise
RECURSIVE FirstExisting(_)
FirstExisting(blob_names) ==
    IF blob_names = <<>> THEN NoText
    ELSE IF Exists(Head(blob_names)) THEN store[Head(blob_names)]
    ELSE FirstExisting(Tail(blob_names))

\* fast.py, lines 189-209
get_pdf_extract(environ, pdf_name, extract_type) ==
    LET base_folder == getenv(environ, ExtractFolderVar(extract_type), ExtractsDefault)
        blob_name(subfolder) ==
            base_folder \o subfolder \o <<"/">> \o replace(pdf_name, DotPdf, DotTxt)
    IN  FirstExisting([i \in DOMAIN subfolders |-> blob_name(subfolders[i])])

\* FastApi.py, lines 105-123, for the two extract types its caller admits
\* (line 219)
FastApi_get_pdf_extract(environ, pdf_name, extract_type) ==
    LET base_folder ==
            IF extract_type = "pypdf"
            THEN getenv(environ, ExtractFolderVar("pypdf"), NoneFormatted)
            ELSE getenv(environ, ExtractFolderVar("pdfco"), NoneFormatted)
        blob_name(subfolder) ==
            base_folder \o subfolder \o <<"/">>
                \o replace(pdf_name, DotPdf, <<"_","e","x","t","r","a","c","t">> \o DotTxt)
    IN  FirstExisting([i \in DOMAIN subfolders |-> blob_name(subfolders[i])])

\* the names a caller can give a document: its identifier in the dataset and
\* its file name
DocumentNames(file) == {file, FinalSegment(file)}

(***************************************************************************)
(* C20: writer/reader path agreement.  Once the pipeline has stored the    *)
(* service extract of a document, the fetch-extract endpoint called with   *)
(* the document's name and the method "pdfco" returns the stored text, in  *)
(* both versions of the application and in every environment.              *)
(***************************************************************************)
C20_ReaderFindsWhatThePipelineWrote ==
    \A r \in Runs :
        ( /\ ops[r] # <<>>
          /\ Last(ops[r]) = Entry("upload_pdfco", pdfco_text_path[r], TRUE) )
        => \A environ \in Environments : \A pdf_name \in DocumentNames(pdf_file[r]) :
              /\ get_pdf_extract(environ, pdf_name, "pdfco") = store[pdfco_text_path[r]]
              /\ FastApi_get_pdf_extract(environ, pdf_name, "pdfco") = store[pdfco_text_path[r]]

(***************************************************************************)
(* The listing of the application: get_pdfs of fast.py and of FastApi.py.  *)
(***************************************************************************)
Uppercase == <<"A","B","C","D","E","F","G","H","I","J","K","L","M",
               "N","O","P","Q","R","S","T","U","V","W","X","Y","Z">>
Lowercase == <<"a","b","c","d","e","f","g","h","i","j","k","l","m",
               "n","o","p","q","r","s","t","u","v","w","x","y","z">>

\* str.lower
LowerOf == [c \in Range(Uppercase) |->
               Lowercase[CHOOSE k \in DOMAIN Uppercase : Uppercase[k] = c]]
lower(s) == [i \in DOMAIN s |-> IF s[i] \in DOMAIN LowerOf THEN LowerOf[s[i]] ELSE s[i]]

ExtractTxt == <<"_","e","x","t","r","a","c","t">> \o DotTxt

\* bucket.list_blobs(prefix=...)
list_blobs(prefix) == {name \in DOMAIN store : startswith(name, prefix)}

\* the entries list_pdfs_from_folder adds to pdf_list for one folder
list_pdfs_from_folder(folder_name) ==
    UNION { { subfolders[i] \o <<"/">> \o
                (IF endswith(lower(name), DotPdf)
                 THEN FinalSegment(name)
                 ELSE replace(FinalSegment(name), ExtractTxt, DotPdf))
              : name \in { n \in list_blobs(folder_name \o subfolders[i] \o <<"/">>) :
                             \/ endswith(lower(n), DotPdf)
                             \/ endswith(lower(n), ExtractTxt) } }
            : i \in DOMAIN subfolders }

\* fast.py, lines 258-284: the defaults are 'pdfs/', 'pypdf_extracts/' and
\* 'pdfco_extracts/'
get_pdfs(environ) ==
    list_pdfs_from_folder(getenv(environ, PdfFolderVar, <<"p","d","f","s","/">>))
    \cup list_pdfs_from_folder(getenv(environ, ExtractFolderVar("pypdf"),
             <<"p","y","p","d","f","_","e","x","t","r","a","c","t","s","/">>))
    \cup list_pdfs_from_folder(getenv(environ, ExtractFolderVar("pdfco"),
             <<"p","d","f","c","o","_","e","x","t","r","a","c","t","s","/">>))

\* FastApi.py, lines 187-215: no defaults
FastApi_get_pdfs(environ) ==
    list_pdfs_from_folder(getenv(environ, PdfFolderVar, NoneFormatted))
    \cup list_pdfs_from_folder(getenv(environ, ExtractFolderVar("pypdf"), NoneFormatted))
    \cup list_pdfs_from_folder(getenv(environ, ExtractFolderVar("pdfco"), NoneFormatted))

\* the entry of the listing for a document: its subfolder and its file name
ListingEntry(file) == SubSeq(file, Len(Year) + 1, Len(file))

\* the document has an object in the store: its original or one of its
\* extracts
HasObject(file) ==
    Exists(file) \/ Exists(GcsTextPath(file)) \/ Exists(PdfcoTextPath(file))

(***************************************************************************)
(* C21: the listing returns the identifiers derived from the objects under *)
(* the three prefixes; a document with only its original or only an        *)
(* extract stored is listed.  Stated for the most favourable environment:  *)
(* in every reachable state there is an environment in which both versions *)
(* of the listing contain the entry of every candidate that has an object  *)
(* in the store.                                                           *)
(***************************************************************************)
C21_ListingShowsEveryStoredDocument ==
    \E environ \in Environments :
        \A file \in Candidates :
            HasObject(file) =>
                /\ ListingEntry(file) \in get_pdfs(environ)
                /\ ListingEntry(file) \in FastApi_get_pdfs(environ)

(***************************************************************************)
(* The fetch-extract endpoint of the application: get_extract of fast.py   *)
(* and of FastApi.py.  An answer records whether the handler reached       *)
(* get_pdf_extract, the only code of the handler that uses the bucket.     *)
(***************************************************************************)
ExtractTypes == {"pypdf", "pdfco"}

get_extract_anytype(environ, pdf_name, extract_type) ==
    LET extract == get_pdf_extract(environ, pdf_name, extract_type)
    IN  IF extract = NoText
        THEN [status |-> 404, body |-> <<"Extract not found">>, bucket |-> TRUE]
        ELSE [status |-> 200, body |-> extract, bucket |-> TRUE]

\* fast.py, lines 286-295
get_extract(environ, pdf_name, extract_type) ==
    IF extract_type \notin ExtractTypes
    THEN [status |-> 400, body |-> <<"Invalid extract type">>, bucket |-> FALSE]
    ELSE LET extract == get_pdf_extract(environ, pdf_name, extract_type)
         IN  IF extract = NoText
             THEN [status |-> 404, body |-> <<"Extract not found">>, bucket |-> TRUE]
             ELSE [status |-> 200, body |-> extract, bucket |-> TRUE]

\* FastApi.py, lines 217-226
FastApi_get_extract(environ, pdf_name, extract_type) ==
    IF extract_type \notin ExtractTypes
    THEN [status |-> 400, body |-> <<"Invalid extract type">>, bucket |-> FALSE]
    ELSE LET extract == FastApi_get_pdf_extract(environ, pdf_name, extract_type)
         IN  IF extract = NoText
             THEN [status |-> 404, body |-> <<"Extract not found">>, bucket |-> TRUE]
             ELSE [status |-> 200, body |-> extract, bucket |-> TRUE]

\* the requests of the model: the names of the documents of the dataset and
\* extract types, two of them not admitted
RequestNames == UNION {DocumentNames(file) : file \in Candidates}
RequestTypes == ExtractTypes \cup {"PDFCO", "ocr"}

\* GET /extract/{pdf_name}?extract_type=... served by fast.py
GetExtract ==
    /\ \E environ \in Environments : \E pdf_name \in RequestNames :
         \E extract_type \in RequestTypes :
            response' = [app |-> "fast", environ |-> environ, pdf_name |-> pdf_name,
                         extract_type |-> extract_type,
                         answer |-> get_extract(environ, pdf_name, extract_type)]
    /\ UNCHANGED pipeline

\* the same request served by FastApi.py
FastApi_GetExtract ==
    /\ \E environ \in Environments : \E pdf_name \in RequestNames :
         \E extract_type \in RequestTypes :
            response' = [app |-> "FastApi", environ |-> environ, pdf_name |-> pdf_name,
                         extract_type |-> extract_type,
                         answer |-> FastApi_get_extract(environ, pdf_name, extract_type)]
    /\ UNCHANGED pipeline

\* the application serving requests over a bucket the pipeline is not
\* writing to at the time
ApiNext == GetExtract \/ FastApi_GetExtract

ApiSpec == Init /\ [][ApiNext]_vars

\* the object paths at which a version of the application keeps the extract
\* of a method for a document name, one for each subfolder
ExtractObjects(app, environ, pdf_name, extract_type) ==
    LET base_folder ==
            getenv(environ, ExtractFolderVar(extract_type),
                   IF app = "fast" THEN ExtractsDefault ELSE NoneFormatted)
        suffix == IF app = "fast" THEN DotTxt ELSE ExtractTxt
    IN  { base_folder \o subfolders[i] \o <<"/">> \o replace(pdf_name, DotPdf, suffix)
          : i \in DOMAIN subfolders }

OverlapStores ==
    LET last == PdfFilesOf(RepoFiles, folders_to_check[Len(folders_to_check)])
        paths == UNION {{f, GcsTextPath(f), PdfcoTextPath(f)} : f \in Range(last)}
    IN  {S \in InitStores : DOMAIN S \subseteq paths}

OverlapInit ==
    /\ store \in OverlapStores
    /\ local_files = {}
    /\ faults = 0
    /\ passes = MaxPasses
    /\ pc = [r \in Runs |-> "list"]
    /\ folder = [r \in Runs |-> Len(folders_to_check)]
    /\ pdf_files = [r \in Runs |-> <<>>]
    /\ idx = [r \in Runs |-> 1]
    /\ pdf_file = [r \in Runs |-> <<>>]
    /\ pdf_exists = [r \in Runs |-> FALSE]
    /\ text_exists = [r \in Runs |-> FALSE]
    /\ pdfco_exists = [r \in Runs |-> FALSE]
    /\ gcs_text_path = [r \in Runs |-> <<>>]
    /\ pdfco_text_path = [r \in Runs |-> <<>>]
    /\ site = [r \in Runs |-> "none"]
    /\ file_path = [r \in Runs |-> <<>>]
    /\ pdf_file_path = [r \in Runs |-> <<>>]
    /\ backend_text_path = [r \in Runs |-> <<>>]
    /\ extracted_text = [r \in Runs |-> <<>>]
    /\ ops = [r \in Runs |-> <<>>]
    /\ response = <<>>

\* the steps of a run that has been triggered
OverlapStep(r) ==
    \/ ListRepoFiles(r)
    \/ FolderExcept(r)
    \/ ProbePdf(r)
    \/ ProbeText(r)
    \/ ProbePdfco(r)
    \/ Dispatch(r)
    \/ DownloadPdf(r)
    \/ UploadToGcs(r)
    \/ PypdfCheck(r)
    \/ PypdfParse(r)
    \/ PypdfUpload(r)
    \/ PdfcoCheck(r)
    \/ GenerateSignedUrl(r)
    \/ PdfcoPost(r)
    \/ PdfcoUpload(r)

OverlapNext == \E r \in Runs : OverlapStep(r)

OverlapSpec == OverlapInit /\ [][OverlapNext]_vars

\* what a single pass leaves at a path: what was there before it, the bytes
\* of the document at the path of an original, a text of the service at the
\* path of a service extract
SinglePassContents(path) ==
    {InitContent(path)}
    \cup (IF path \in {PdfcoTextPath(f) : f \in Candidates}
          THEN ServiceBodies \ {<<>>} ELSE {})

(***************************************************************************)
(* C23: overlapping runs only repeat work.  In every step of two           *)
(* interleaved runs no object of the store is lost, every object holds     *)
(* what a single pass leaves at its path, and as long as no call has       *)
(* failed an upload to a path that holds an object writes the content the  *)
(* object has already.                                                     *)
(***************************************************************************)
C23_OverlapOnlyRepeatsWork ==
    [][ /\ \A path \in DOMAIN store :
             /\ path \in DOMAIN store'
             /\ (store'[path] = store[path] \/ faults > 0)
        /\ \A path \in DOMAIN store' : store'[path] \in SinglePassContents(path)
      ]_vars

\* both runs found the service extract of the same document absent and both
\* have uploaded it
C23_Witness ==
    /\ ops[1] # <<>> /\ ops[2] # <<>>
    /\ pdf_file[1] = pdf_file[2]
    /\ Last(ops[1]) = Entry("upload_pdfco", PdfcoTextPath(pdf_file[1]), TRUE)
    /\ Last(ops[2]) = Entry("upload_pdfco", PdfcoTextPath(pdf_file[2]), TRUE)
    /\ faults = 0

\* the run is inside the loop over the documents of a folder
InLoop(r) == pc[r] \notin {"idle", "list", "except"}

\* the listed files that qualify for a folder
Qualifying(folder_path) ==
    {f \in Range(RepoFiles) : startswith(f, folder_path) /\ endswith(f, DotPdf)}

C25_LocalExtractionFollowsDownload ==
    \A r \in Runs :
        (faults = 0 /\ InPypdf(r)) =>
            /\ \E i \in DOMAIN ops[r] : ops[r][i] = Entry("download", pdf_file[r], TRUE)
            /\ pdf_file_path[r] \in local_files

(***************************************************************************)
(* C26: a backend called for a pair whose extract object exists does no    *)
(* work.  A backend that is past its existence check, about to open the    *)
(* file, to ask for a signed URL, to call the service or to upload, is     *)
(* working on a pair whose extract object is absent.                       *)
(***************************************************************************)
C26_BackendWorksOnlyForAbsentExtract ==
    \A r \in Runs :
        (InPypdf(r) \/ InPdfco(r)) => ~Exists(backend_text_path[r])

\* the step is a failure of the local extraction of run r: open, the parser
\* or the upload of the text raised
LocalFailure(r) ==
    \E op \in {"parse", "upload_pypdf"} : \E path \in {pdf_file_path[r], backend_text_path[r]} :
        ops'[r] = Append(ops[r], Entry(op, path, FALSE))

PathsOf(file) == {file, GcsTextPath(file), PdfcoTextPath(file)}

\* no two candidates share a storage path
PathsAreDisjoint ==
    \A f, g \in Candidates : f # g => PathsOf(f) \cap PathsOf(g) = {}

\* the object at the path is new or has a new content after the step
Written(path) == path \notin DOMAIN store \/ store'[path] # store[path]

(***************************************************************************)
(* C28: no two candidates share a storage path, and a step of the pass     *)
(* writes only at the three paths of the document the running pass has in  *)
(* hand: the objects of every other document stay as they are.             *)
(***************************************************************************)
C28_DocumentsKeepToTheirPaths ==
    [][ /\ PathsAreDisjoint
        /\ DOMAIN store \subseteq DOMAIN store'
        /\ \A path \in DOMAIN store' :
             Written(path) =>
                \E r \in Runs : pc[r] \in MutatingPcs /\ path \in PathsOf(pdf_file[r])
      ]_vars

\* the service extract of 2023/validation/a.pdf has been written and the one
\* of 2023/test/a.pdf, of the same file name, is the object it was before
C28_Witness ==
    /\ ops[1] # <<>>
    /\ Last(ops[1]) = Entry("upload_pdfco", PdfcoTextPath(F_validation_a), TRUE)
    /\ Exists(PdfcoTextPath(F_test_a))
    /\ store[PdfcoTextPath(F_test_a)] = OldText
    /\ store[PdfcoTextPath(F_validation_a)] # OldText

(***************************************************************************)
(* C29: a signed URL is generated and the external service is called only  *)
(* for a document whose original is in the store at its identifier: a run  *)
(* that is past the existence check of the service backend works on a      *)
(* document whose original is stored.                                      *)
(***************************************************************************)
C29_ServiceCalledOnlyForStoredOriginal ==
    \A r \in Runs : InPdfco(r) => Exists(pdf_file[r])

\* the probe of the original answered False, the original was uploaded and
\* the request to the service is about to be sent
C29_Witness ==
    \E r \in Runs :
        /\ pc[r] = "post"
        /\ site[r] = "full"
        /\ ~pdf_exists[r]
        /\ \E i \in DOMAIN ops[r] : ops[r][i] = Entry("upload_pdf", pdf_file[r], TRUE)
        /\ Exists(pdf_file[r])

====
